---- MODULE Spec2Model ----
(***************************************************************************)
(* The TMDB request/response mapping functions of the movie front-end:     *)
(* fetchMoviesRecommendation, fetchTrendingMovies, fetchMovieDetail,       *)
(* fetchMovieCredits, fetchMovieTrailer, fetchMovieReviews, searchMovies.  *)
(*                                                                         *)
(* Each call is an async function: it issues one fetch, suspends, resumes  *)
(* when the fetch settles (status check, then res.json()), suspends again, *)
(* and resumes when the body has been parsed (mapping, return or catch).   *)
(* The upstream answer (transport failure, status, body) is the input.     *)
(***************************************************************************)
EXTENDS Integers, Sequences, FiniteSets

VARIABLES pc, op, sent, res, body, out, log

vars == <<pc, op, sent, res, body, out, log>>

(* Bounds of the model. *)
MaxItems == 2
MaxCalls == 2

Calls == 1..MaxCalls

Ops == {"fetchMoviesRecommendation", "fetchTrendingMovies", "fetchMovieDetail",
        "fetchMovieCredits", "fetchMovieTrailer", "fetchMovieReviews",
        "searchMovies"}

MovieOps == {"fetchMoviesRecommendation", "fetchTrendingMovies", "searchMovies"}

ListOps == MovieOps \cup {"fetchMovieCredits", "fetchMovieReviews"}

(***************************************************************************)
(* JavaScript values as they come out of res.json().  Every value carries  *)
(* its type tag t; scalars share one record shape.                         *)
(***************************************************************************)
Undef == [t |-> "undef", n |-> 0, s |-> ""]
NullV == [t |-> "null", n |-> 0, s |-> ""]
Num(n) == [t |-> "num", n |-> n, s |-> ""]
Str(s) == [t |-> "str", n |-> 0, s |-> s]
Arr(xs) == [t |-> "arr", a |-> xs]

Nullish(v) == v.t \in {"undef", "null"}

Digit(d) ==
  CASE d = 0 -> "0" [] d = 1 -> "1" [] d = 2 -> "2" [] d = 3 -> "3"
    [] d = 4 -> "4" [] d = 5 -> "5" [] d = 6 -> "6" [] d = 7 -> "7"
    [] d = 8 -> "8" [] d = 9 -> "9"

RECURSIVE DecStr(_)
DecStr(n) == IF n < 10 THEN Digit(n) ELSE DecStr(n \div 10) \o Digit(n % 10)

ToStringNeverThrows(v) == FALSE

(* x.toString() for a number or a string; on undefined or null the property
   access raises a TypeError, which ToStringThrows tells. *)
ToStringThrows(v) == Nullish(v)

toString(v) == IF v.t = "num" THEN Str(DecStr(v.n)) ELSE v

(* `${v}` inside a template literal. *)
TemplateStr(v) ==
  CASE v.t = "str" -> v.s
    [] v.t = "num" -> DecStr(v.n)
    [] v.t = "null" -> "null"
    [] v.t = "undef" -> "undefined"

ImagePrefix == "https://image.tmdb.org/t/p/w500"

SeqUpTo(S, n) == UNION {[1..k -> S] : k \in 0..n}

(***************************************************************************)
(* Upstream shapes.  A field that the upstream omits reads as Undef.       *)
(***************************************************************************)
TMDBMovie ==
  [t : {"obj"},
   id : {Undef, Num(7), Num(550)},
   title : {Undef, Str("Up")},
   poster_path : {NullV, Str(""), Str("/a.jpg")},
   vote_average : {Num(0), Num(8)}]

Genre == [id |-> Num(18), name |-> Str("Drama")]

SpokenLanguage ==
  [english_name |-> Str("English"), iso_639_1 |-> Str("en"), name |-> Str("English")]

TMDBMovieDetail ==
  [t : {"obj"},
   id : {Undef, Num(550)},
   title : {Undef, Str("Fight Club")},
   poster_path : {NullV, Str(""), Str("/f.jpg")},
   vote_average : {Num(8)},
   overview : {Str("An insomniac office worker.")},
   release_date : {Undef, Str("1999-10-15")},
   runtime : {Num(139)},
   genres : {Arr(<<Genre>>)},
   spoken_languages : {Undef, Arr(<<SpokenLanguage>>)}]

TMDBCast ==
  [t : {"obj"},
   id : {Undef, Num(31), Str("31")},
   profile_path : {NullV, Str("/p.jpg")},
   name : {Str("Tom Hanks")},
   character : {Undef, Str("Woody")},
   known_for_department : {Str("Acting")}]

TMDBTrailerEntry ==
  [t : {"obj"},
   key : {Undef, Str("k1"), Str("k2")},
   site : {Undef, Str("YouTube")}]

AuthorDetails ==
  [t : {"obj"},
   rating : {Undef, NullV, Num(0), Num(7)},
   avatar_path : {Undef, Str("/av.png")}]

TMDBReview ==
  [t : {"obj"},
   id : {Undef, Str("r1"), Str("r2")},
   author : {Str("ann")},
   content : {Str("Great.")},
   created_at : {Str("2024-01-01")},
   url : {Str("https://www.themoviedb.org/review/r1")},
   author_details : {Undef, NullV} \cup AuthorDetails]

(* The items an upstream list may hold for an operation: objects of the
   expected type, with or without every field, and null. *)
Items(o) ==
  {NullV} \cup
  (CASE o \in MovieOps -> TMDBMovie
     [] o = "fetchMovieDetail" -> TMDBMovieDetail
     [] o = "fetchMovieCredits" -> TMDBCast
     [] o = "fetchMovieTrailer" -> TMDBTrailerEntry
     [] o = "fetchMovieReviews" -> TMDBReview
     [] OTHER -> {})

(* The items with every field present. *)
FullyPopulated(x) == x.t = "obj" /\ \A f \in DOMAIN x \ {"t"} : ~Nullish(x[f])

(* The parsed top-level values: null, an object without its list, an object
   with its list; for the detail endpoint the movie object itself. *)
ListField(o, l) ==
  IF o = "fetchMovieCredits" THEN [t |-> "obj", cast |-> l]
  ELSE [t |-> "obj", results |-> l]

Datas(o, items, n) ==
  IF o = "fetchMovieDetail" THEN items
  ELSE {NullV, ListField(o, Undef)}
         \cup {ListField(o, Arr(xs)) : xs \in SeqUpTo(items, n)}

(* What res.json() settles with: a rejection (the body is not JSON) or the
   parsed value. *)
Unparseable == [parsed |-> FALSE, data |-> Undef]

Bodies(o, items, n) ==
  {Unparseable} \cup {[parsed |-> TRUE, data |-> d] : d \in Datas(o, items, n)}

(* What fetch() settles with: a rejection (transport failure) or a response
   with its status; res.ok is true for the 2xx statuses. *)
Rejected == [rejected |-> TRUE, status |-> 0]

FetchResults ==
  {Rejected} \cup {[rejected |-> FALSE, status |-> s] : s \in {200, 404, 500}}

OkUnchecked(r) == ~r.rejected

Ok(r) == ~r.rejected /\ r.status \in 200..299

(***************************************************************************)
(* The outcome of a call: a returned list, a returned single value, or an  *)
(* exception that reaches the caller (val holds the error).                *)
(***************************************************************************)
Pending == [st |-> "pending", kind |-> "none", list |-> <<>>, val |-> Undef]
ReturnList(xs) == [st |-> "returned", kind |-> "list", list |-> xs, val |-> Undef]
ReturnValue(v) == [st |-> "returned", kind |-> "value", list |-> <<>>, val |-> v]
Throw(e) == [st |-> "thrown", kind |-> "error", list |-> <<>>, val |-> Str(e)]

(* The request each function issues. *)
Endpoint(o) ==
  CASE o = "fetchMoviesRecommendation" -> "/3/movie/${movieId}/recommendations"
    [] o = "fetchTrendingMovies" -> "/3/trending/movie/week"
    [] o = "fetchMovieDetail" -> "/3/movie/${movieId}"
    [] o = "fetchMovieCredits" -> "/3/movie/${movieId}/credits"
    [] o = "fetchMovieTrailer" -> "/3/movie/${movieId}/videos"
    [] o = "fetchMovieReviews" -> "/3/movie/${movieId}/reviews"
    [] o = "searchMovies" -> "/3/search/movie?query=${query}&language=en-US"

RevalidateSeconds == 60

Request(o) ==
  [url |-> Endpoint(o),
   authorization |-> "Bearer",
   revalidate |-> IF o = "fetchTrendingMovies" THEN <<RevalidateSeconds>> ELSE <<>>]

(* The Error thrown when res.ok is false. *)
StatusError(o) ==
  CASE o = "fetchMoviesRecommendation" -> "Failed to fetch movies recommendation"
    [] o = "fetchTrendingMovies" -> "Failed to fetch trending movies"
    [] o = "fetchMovieDetail" -> "Failed to fetch movie detail"
    [] o = "fetchMovieCredits" -> "Failed to fetch movie credits"
    [] o = "fetchMovieTrailer" -> "Failed to fetch movie trailer"
    [] o = "fetchMovieReviews" -> "Failed to fetch movie reviews"
    [] o = "searchMovies" -> "Movie search failed"   \* the source's text is Korean

(* The text console.error is given in the catch block. *)
LogPrefix(o) ==
  CASE o = "fetchMoviesRecommendation" -> "Error fetching movies recommendation:"
    [] o = "fetchTrendingMovies" -> "Error fetching trending movies:"
    [] o = "fetchMovieDetail" -> "Error fetching movie detail:"
    [] o = "fetchMovieCredits" -> "Error fetching movie credits:"
    [] o = "fetchMovieTrailer" -> "Error fetching movie trailer:"
    [] o = "fetchMovieReviews" -> "Error fetching movie reviews:"
    [] o = "searchMovies" -> "Error searching movies:"

(***************************************************************************)
(* The mapping callbacks.                                                  *)
(***************************************************************************)
MovieNoEmptyImage(movie) ==
  [id |-> toString(movie.id),
   title |-> movie.title,
   image |-> IF Nullish(movie.poster_path) \/ movie.poster_path = Str("")
               THEN Str("")
               ELSE Str(ImagePrefix \o TemplateStr(movie.poster_path)),
   rating |-> movie.vote_average]

Movie(movie) ==
  [id |-> toString(movie.id),
   title |-> movie.title,
   image |-> Str(ImagePrefix \o TemplateStr(movie.poster_path)),
   rating |-> movie.vote_average]

MovieDetail(data) ==
  [id |-> toString(data.id),
   title |-> data.title,
   image |-> Str(ImagePrefix \o TemplateStr(data.poster_path)),
   rating |-> data.vote_average,
   overview |-> data.overview,
   releaseDate |-> data.release_date,
   runtime |-> data.runtime,
   genres |-> data.genres,
   spoken_languages |-> data.spoken_languages]

Cast(cast) ==
  [id |-> toString(cast.id),
   profile_path |-> cast.profile_path,
   name |-> cast.name,
   character |-> cast.character,
   known_for_department |-> cast.known_for_department]

(* a?.f : undefined when a is undefined or null. *)
OptRating(ad) == IF Nullish(ad) THEN Undef ELSE ad.rating

OptAvatar(ad) == IF Nullish(ad) THEN Undef ELSE ad.avatar_path

(* a ?? null *)
OrNull(v) == IF Nullish(v) THEN NullV ELSE v

(* !v *)
Falsy(v) ==
  \/ Nullish(v)
  \/ (v.t = "num" /\ v.n = 0)
  \/ (v.t = "str" /\ v.s = "")

ReviewFalsyRating(review) ==
  [id |-> review.id,
   author |-> review.author,
   content |-> review.content,
   created_at |-> review.created_at,
   url |-> review.url,
   rating |-> IF Falsy(OptRating(review.author_details)) THEN NullV
              ELSE OptRating(review.author_details),
   avatar_path |-> OrNull(OptAvatar(review.author_details))]

Review(review) ==
  [id |-> review.id,
   author |-> review.author,
   content |-> review.content,
   created_at |-> review.created_at,
   url |-> review.url,
   rating |-> OrNull(OptRating(review.author_details)),
   avatar_path |-> OrNull(OptAvatar(review.author_details))]

(* Whether the callback raises a TypeError on the item: a property read on
   null, or toString() on a missing id. *)
ItemThrows(o, x) ==
  \/ Nullish(x)
  \/ (o \in MovieOps \cup {"fetchMovieCredits"} /\ ToStringThrows(x.id))

ItemOf(o, x) ==
  CASE o \in MovieOps -> Movie(x)
    [] o = "fetchMovieCredits" -> Cast(x)
    [] o = "fetchMovieReviews" -> Review(x)

Reverse(xs) == [i \in 1..Len(xs) |-> xs[Len(xs) + 1 - i]]

ArrayMapReversed(o, xs) ==
  IF \E i \in 1..Len(xs) : ItemThrows(o, xs[i])
    THEN Throw("TypeError")
    ELSE ReturnList(Reverse([i \in 1..Len(xs) |-> ItemOf(o, xs[i])]))

ArrayMapSkip(o, xs) ==
  LET good == SelectSeq(xs, LAMBDA x : ~ItemThrows(o, x))
  IN  ReturnList([i \in 1..Len(good) |-> ItemOf(o, good[i])])

(* xs.map(callback): the first item on which the callback raises aborts the
   whole map. *)
ArrayMap(o, xs) ==
  IF \E i \in 1..Len(xs) : ItemThrows(o, xs[i])
    THEN Throw("TypeError")
    ELSE ReturnList([i \in 1..Len(xs) |-> ItemOf(o, xs[i])])

LastOrNull(xs) ==
  IF xs = <<>> \/ Falsy(xs[Len(xs)]) THEN NullV ELSE xs[Len(xs)]

(* xs[0] || null *)
FirstOrNull(xs) ==
  IF xs = <<>> \/ Falsy(xs[1]) THEN NullV ELSE xs[1]

(* The statements between `await res.json()` and the end of the try block. *)
Mapper(o, data) ==
  IF data.t # "obj" THEN Throw("TypeError")
  ELSE CASE o = "fetchMovieDetail" ->
              IF ToStringThrows(data.id) THEN Throw("TypeError")
              ELSE ReturnValue(MovieDetail(data))
         [] o = "fetchMovieTrailer" ->
              IF data.results.t # "arr" THEN Throw("TypeError")
              ELSE ReturnValue(FirstOrNull(data.results.a))
         [] o = "fetchMovieCredits" ->
              IF data.cast.t # "arr" THEN Throw("TypeError")
              ELSE ArrayMap(o, data.cast.a)
         [] OTHER ->
              IF data.results.t # "arr" THEN Throw("TypeError")
              ELSE ArrayMap(o, data.results.a)

(* The value returned from the catch block. *)
Fallback(o) ==
  IF o = "fetchMovieTrailer" THEN ReturnValue(NullV) ELSE ReturnList(<<>>)

CatchRethrow(o, e) == e

CatchSwallow(o, e) ==
  IF o = "fetchMovieDetail" THEN ReturnValue(NullV) ELSE Fallback(o)

(* The catch block: fetchMovieDetail throws the error again, the others
   return their fallback.  e is the thrown outcome. *)
Catch(o, e) == IF o = "fetchMovieDetail" THEN e ELSE Fallback(o)

(***************************************************************************)
(* The calls.  pc[c] is where call c is suspended; res[c] and body[c] are  *)
(* what its fetch() and its res.json() settled with; out[c] is what the    *)
(* caller gets; sent[c] are the requests it issued; log is console.error.  *)
(***************************************************************************)
NoResponse == [rejected |-> FALSE, status |-> 0]
NotRead == [parsed |-> FALSE, data |-> Str("not read")]

Init ==
  /\ pc = [c \in Calls |-> "idle"]
  /\ op = [c \in Calls |-> "none"]
  /\ sent = [c \in Calls |-> <<>>]
  /\ res = [c \in Calls |-> NoResponse]
  /\ body = [c \in Calls |-> NotRead]
  /\ out = [c \in Calls |-> Pending]
  /\ log = {}

(* The function is called: it runs up to `await fetch(...)`. *)
Call(c, o) ==
  /\ pc[c] = "idle"
  /\ pc' = [pc EXCEPT ![c] = "awaitFetch"]
  /\ op' = [op EXCEPT ![c] = o]
  /\ sent' = [sent EXCEPT ![c] = Append(@, Request(o))]
  /\ UNCHANGED <<res, body, out, log>>

SettleShared(c, r) ==
  LET v == IF r.st = "thrown" THEN Catch(op[c], r) ELSE r
  IN  /\ pc' = [pc EXCEPT ![c] = "done"]
      /\ out' = [d \in Calls |-> IF d = c \/ pc[d] = "done" THEN v ELSE out[d]]
      /\ log' = IF r.st = "thrown"
                  THEN log \cup {[call |-> c, text |-> LogPrefix(op[c]), error |-> r.val]}
                  ELSE log

(* The try block ends with r, a return or a throw: a throw runs the catch
   block, and the call's promise settles. *)
Settle(c, r) ==
  /\ pc' = [pc EXCEPT ![c] = "done"]
  /\ out' = [out EXCEPT ![c] = IF r.st = "thrown" THEN Catch(op[c], r) ELSE r]
  /\ log' = IF r.st = "thrown"
              THEN log \cup {[call |-> c, text |-> LogPrefix(op[c]), error |-> r.val]}
              ELSE log

FetchSettledRetry(c, s) ==
  /\ pc[c] = "awaitFetch"
  /\ res' = [res EXCEPT ![c] = s]
  /\ IF ~Ok(s) /\ Len(sent[c]) < 2
       THEN /\ sent' = [sent EXCEPT ![c] = Append(@, Request(op[c]))]
            /\ UNCHANGED <<pc, out, log>>
       ELSE /\ UNCHANGED sent
            /\ IF Ok(s) THEN pc' = [pc EXCEPT ![c] = "awaitJson"] /\ UNCHANGED <<out, log>>
               ELSE Settle(c, Throw(StatusError(op[c])))
  /\ UNCHANGED <<op, body>>

(* fetch() settles with s and the call resumes: a rejection goes to the
   catch block, a status that is not ok throws, otherwise res.json() is
   called and awaited. *)
FetchSettled(c, s) ==
  /\ pc[c] = "awaitFetch"
  /\ res' = [res EXCEPT ![c] = s]
  /\ IF s.rejected THEN Settle(c, Throw("fetch failed"))
     ELSE IF ~Ok(s) THEN Settle(c, Throw(StatusError(op[c])))
     ELSE pc' = [pc EXCEPT ![c] = "awaitJson"] /\ UNCHANGED <<out, log>>
  /\ UNCHANGED <<op, sent, body>>

(* res.json() settles with b and the call resumes: a rejection goes to the
   catch block, otherwise the parsed value is mapped. *)
JsonSettled(c, b) ==
  /\ pc[c] = "awaitJson"
  /\ body' = [body EXCEPT ![c] = b]
  /\ IF ~b.parsed THEN Settle(c, Throw("SyntaxError"))
     ELSE Settle(c, Mapper(op[c], b.data))
  /\ UNCHANGED <<op, sent, res>>

(* The bodies call c may be resumed with: none unless it awaits res.json(). *)
Awaited(c, bodies) == IF pc[c] = "awaitJson" THEN bodies ELSE {}

(* One call, with upstream lists of up to MaxItems items. *)
Next ==
  \/ \E o \in Ops : Call(1, o)
  \/ \E s \in FetchResults : FetchSettled(1, s)
  \/ \E b \in Awaited(1, Bodies(op[1], Items(op[1]), MaxItems)) : JsonSettled(1, b)

Spec == Init /\ [][Next]_vars

(* The upstream answers tried when several calls are in flight. *)
Sample(o) == {x \in Items(o) : x.t = "null" \/ FullyPopulated(x)}

(* A call as a function of what its fetch() and its res.json() settle with. *)
Alone(o, s, b) ==
  IF s.rejected THEN Catch(o, Throw("fetch failed"))
  ELSE IF ~Ok(s) THEN Catch(o, Throw(StatusError(o)))
  ELSE IF ~b.parsed THEN Catch(o, Throw("SyntaxError"))
  ELSE IF Mapper(o, b.data).st = "thrown" THEN Catch(o, Mapper(o, b.data))
  ELSE Mapper(o, b.data)

(* Up to MaxCalls calls in flight at once, settling in any order. *)
NextConc ==
  \E c \in Calls :
    \/ \E o \in Ops : Call(c, o)
    \/ \E s \in FetchResults : FetchSettled(c, s)
    \/ \E b \in Awaited(c, Bodies(op[c], Sample(op[c]), 1)) : JsonSettled(c, b)

SpecConc == Init /\ [][NextConc]_vars

(***************************************************************************)
(* Vocabulary of the properties, stated on the upstream answer and on the  *)
(* outcome only.                                                           *)
(***************************************************************************)
Done(c) == pc[c] = "done"

FallbackOps == Ops \ {"fetchMovieDetail"}

(* The call's fetch has settled. *)
Answered(c) == pc[c] \in {"awaitJson", "done"}

(* The request was rejected (transport failure). *)
RequestRejected(c) == Answered(c) /\ res[c].rejected

(* The fetch settled with a response whose status is a success. *)
Success(c) ==
  Answered(c) /\ ~res[c].rejected /\ res[c].status >= 200 /\ res[c].status <= 299

(* The fetch settled with a response whose status is not a success. *)
NonSuccess(c) ==
  Answered(c) /\ ~res[c].rejected /\ (res[c].status < 200 \/ res[c].status > 299)

(* The outcome on a non-success status: the fallback value, or for
   fetchMovieDetail an exception. *)
FailureOutcome(c) ==
  CASE op[c] = "fetchMovieDetail" -> out[c].st = "thrown"
    [] op[c] = "fetchMovieTrailer" ->
         out[c].st = "returned" /\ out[c].kind = "value" /\ out[c].val = NullV
    [] OTHER ->
         out[c].st = "returned" /\ out[c].kind = "list" /\ out[c].list = <<>>

(* The body parsed to an object. *)
ParsedObject(c) == body[c].parsed /\ body[c].data.t = "obj"

UpField(c) ==
  IF op[c] = "fetchMovieCredits" THEN body[c].data.cast ELSE body[c].data.results

(* A finished call whose success response carried its list. *)
GotList(c) ==
  /\ Done(c) /\ Success(c) /\ ParsedObject(c)
  /\ op[c] \in ListOps \cup {"fetchMovieTrailer"}
  /\ UpField(c).t = "arr"

UpList(c) == UpField(c).a

(* The fields the upstream type of an item declares as always present. *)
ExpectedFields(o) ==
  CASE o \in MovieOps -> {"id", "title", "poster_path", "vote_average"}
    [] o = "fetchMovieDetail" ->
         {"id", "title", "poster_path", "vote_average", "overview",
          "release_date", "runtime", "genres", "spoken_languages"}
    [] o = "fetchMovieCredits" ->
         {"id", "profile_path", "name", "character", "known_for_department"}
    [] o = "fetchMovieTrailer" -> {"key"}
    [] o = "fetchMovieReviews" -> {"id", "author", "content", "created_at", "url"}

LacksField(o, x) == x.t # "obj" \/ \E f \in ExpectedFields(o) : x[f].t = "undef"

WellFormed(o, x) == x.t = "obj" /\ \A f \in ExpectedFields(o) : ~Nullish(x[f])

(* The operations that convert the id of an item with toString(). *)
IdConverted(o) == o \in MovieOps \cup {"fetchMovieCredits", "fetchMovieDetail"}

(* C1: a fallback-style call whose request was rejected or answered with a
   non-success status completes normally with its fallback value (the empty
   list; null for fetchMovieTrailer); no exception reaches the caller. *)
C1_FallbackOnFailedRequest ==
  \A c \in Calls :
    (Done(c) /\ op[c] \in FallbackOps /\ (RequestRejected(c) \/ NonSuccess(c)))
      => /\ out[c].st = "returned"
         /\ IF op[c] = "fetchMovieTrailer"
              THEN out[c].kind = "value" /\ out[c].val = NullV
              ELSE out[c].kind = "list" /\ out[c].list = <<>>

C1_Witness ==
  \E c \in Calls :
    /\ Done(c) /\ op[c] = "fetchMovieTrailer" /\ NonSuccess(c)
    /\ out[c].st = "returned" /\ out[c].val = NullV

(* C2: a fetchMovieDetail call answered with a non-success status ends with
   an exception that reaches the caller, and at no moment holds a returned
   value. *)
C2_DetailThrowsOnStatus ==
  \A c \in Calls :
    (op[c] = "fetchMovieDetail" /\ NonSuccess(c))
      => /\ out[c].st # "returned"
         /\ pc[c] = "done"
         /\ out[c] = Throw("Failed to fetch movie detail")

C2_Witness ==
  \E c \in Calls :
    /\ Done(c) /\ op[c] = "fetchMovieDetail" /\ res[c].status = 404
    /\ out[c].st = "thrown"

(* The body of a success response is malformed or not of the expected
   shape: not parseable, no top-level object or list, or an item that is
   null or lacks a field its upstream type declares. *)
Malformed(c) ==
  \/ ~body[c].parsed
  \/ body[c].data.t # "obj"
  \/ (op[c] = "fetchMovieDetail" /\ LacksField(op[c], body[c].data))
  \/ (op[c] # "fetchMovieDetail" /\ UpField(c).t # "arr")
  \/ (op[c] # "fetchMovieDetail" /\ UpField(c).t = "arr"
        /\ \E i \in 1..Len(UpList(c)) : LacksField(op[c], UpList(c)[i]))

(* C3 as stated: every malformed success body gives the outcome of a
   non-success status. *)
C3_AsStated ==
  \A c \in Calls : (Done(c) /\ Success(c) /\ Malformed(c)) => FailureOutcome(c)

(* The shapes on which reading the body raises: not parseable, no top-level
   object, no list, a null item of a mapped list, or a missing id where the
   id is converted to a string. *)
ShapeRaises(c) ==
  \/ ~body[c].parsed
  \/ body[c].data.t # "obj"
  \/ (op[c] = "fetchMovieDetail" /\ body[c].data.id.t = "undef")
  \/ (op[c] # "fetchMovieDetail" /\ UpField(c).t # "arr")
  \/ (op[c] \in ListOps /\ UpField(c).t = "arr"
        /\ \E i \in 1..Len(UpList(c)) :
             \/ UpList(c)[i].t # "obj"
             \/ (IdConverted(op[c]) /\ UpList(c)[i].id.t = "undef"))

(* C3, amended: a success body on which reading raises gives the outcome of
   a non-success status; any other success body, items with missing copied
   fields included, makes the call return normally: one output per item for
   the list operations, the object for fetchMovieDetail, the first entry
   (or null when there is none or it is null) for fetchMovieTrailer. *)
C3_ShapeFailure ==
  \A c \in Calls :
    (Done(c) /\ Success(c)) =>
      IF ShapeRaises(c) THEN FailureOutcome(c)
      ELSE /\ out[c].st = "returned"
           /\ op[c] \in ListOps => Len(out[c].list) = Len(UpList(c))
           /\ op[c] = "fetchMovieDetail" => out[c].val.title = body[c].data.title
           /\ op[c] = "fetchMovieTrailer" =>
                out[c].val = IF UpList(c) = <<>> \/ UpList(c)[1].t = "null"
                               THEN NullV ELSE UpList(c)[1]

C3_Witness ==
  \E c \in Calls :
    /\ GotList(c) /\ op[c] = "searchMovies" /\ Len(UpList(c)) = 2
    /\ WellFormed(op[c], UpList(c)[1])
    /\ UpList(c)[2].t = "obj" /\ UpList(c)[2].id.t = "undef"
    /\ out[c].st = "returned" /\ out[c].list = <<>>

(* The field mapping of one upstream item, field by field. *)
IdString(v) == IF v.t = "num" THEN Str(DecStr(v.n)) ELSE v

MappedItem(o, x, y) ==
  CASE o \in MovieOps ->
         /\ y.id = IdString(x.id)
         /\ y.title = x.title
         /\ y.image.t = "str" /\ y.image.s = ImagePrefix \o x.poster_path.s
         /\ y.rating = x.vote_average
    [] o = "fetchMovieCredits" ->
         /\ y.id = IdString(x.id)
         /\ y.profile_path = x.profile_path
         /\ y.name = x.name
         /\ y.character = x.character
         /\ y.known_for_department = x.known_for_department
    [] o = "fetchMovieReviews" ->
         /\ y.id = x.id /\ y.author = x.author /\ y.content = x.content
         /\ y.created_at = x.created_at /\ y.url = x.url

(* C4: a success response of a list-returning operation with N well-formed
   items yields N outputs, output i being the field mapping of item i. *)
C4_ListMappedInOrder ==
  \A c \in Calls :
    (GotList(c) /\ op[c] \in ListOps
       /\ \A i \in 1..Len(UpList(c)) : WellFormed(op[c], UpList(c)[i]))
      => /\ out[c].st = "returned" /\ out[c].kind = "list"
         /\ Len(out[c].list) = Len(UpList(c))
         /\ \A i \in 1..Len(UpList(c)) :
              MappedItem(op[c], UpList(c)[i], out[c].list[i])

C4_Witness ==
  \E c \in Calls :
    /\ GotList(c) /\ op[c] = "fetchTrendingMovies" /\ Len(UpList(c)) = MaxItems
    /\ \A i \in 1..Len(UpList(c)) : WellFormed(op[c], UpList(c)[i])
    /\ UpList(c)[1].id = Num(550) /\ UpList(c)[2].id = Num(7)
    /\ Len(out[c].list) = MaxItems
    /\ out[c].list[1].id = Str("550") /\ out[c].list[2].id = Str("7")

(* C5: on a success response fetchMovieTrailer yields null for an empty
   result list and, for a list whose first element is an entry object, a
   trailer holding exactly that element's key and site, whatever these are
   and whatever follows in the list. *)
C5_TrailerIsFirstEntry ==
  \A c \in Calls :
    (GotList(c) /\ op[c] = "fetchMovieTrailer") =>
      /\ out[c].st = "returned" /\ out[c].kind = "value"
      /\ Len(UpList(c)) = 0 => out[c].val = NullV
      /\ (Len(UpList(c)) >= 1 /\ UpList(c)[1].t = "obj") =>
           /\ out[c].val.t = "obj"
           /\ out[c].val.key = UpList(c)[1].key
           /\ out[c].val.site = UpList(c)[1].site

C5_Witness ==
  \E c \in Calls :
    /\ GotList(c) /\ op[c] = "fetchMovieTrailer" /\ Len(UpList(c)) = MaxItems
    /\ UpList(c)[1].t = "obj" /\ UpList(c)[1].key = Str("k2")
    /\ UpList(c)[MaxItems].t = "obj" /\ UpList(c)[MaxItems].key = Str("k1")
    /\ out[c].val.t = "obj" /\ out[c].val.key = Str("k2")

(* The optional field f of an upstream review: absent when the review has
   no author_details object or the object omits f. *)
AuthorField(x, f) ==
  IF x.author_details.t # "obj" THEN Undef ELSE x.author_details[f]

(* C6: an output review has rating (avatar_path) null when the upstream
   review has no author_details object or the object omits the field, and
   the upstream value unchanged otherwise, a rating of 0 included. *)
C6_ReviewOptionalFields ==
  \A c \in Calls :
    (GotList(c) /\ op[c] = "fetchMovieReviews" /\ out[c].st = "returned"
       /\ out[c].list # <<>>) =>
      \A i \in 1..Len(UpList(c)) :
        /\ out[c].list[i].rating =
             IF AuthorField(UpList(c)[i], "rating").t = "undef" THEN NullV
             ELSE AuthorField(UpList(c)[i], "rating")
        /\ out[c].list[i].avatar_path =
             IF AuthorField(UpList(c)[i], "avatar_path").t = "undef" THEN NullV
             ELSE AuthorField(UpList(c)[i], "avatar_path")

C6_Witness ==
  \E c \in Calls :
    /\ GotList(c) /\ op[c] = "fetchMovieReviews" /\ Len(UpList(c)) = 2
    /\ Len(out[c].list) = 2
    /\ UpList(c)[1].author_details.t = "undef"
    /\ out[c].list[1].rating = NullV /\ out[c].list[1].avatar_path = NullV
    /\ UpList(c)[2].author_details.t = "obj"
    /\ UpList(c)[2].author_details.rating = Num(0)
    /\ out[c].list[2].rating = Num(0)

(* The text a path fragment contributes to the image URL. *)
FragmentText(v) == IF v.t = "null" THEN "null" ELSE v.s

(* C7: the image of every movie summary and movie detail is the CDN prefix
   followed by the upstream path fragment, for present, empty and null
   fragments (a null fragment contributes the text null); an item with an
   empty or null fragment is neither dropped nor replaced. *)
C7_ImageIsPrefixPlusFragment ==
  \A c \in Calls :
    /\ (GotList(c) /\ op[c] \in MovieOps /\ out[c].st = "returned"
          /\ \A i \in 1..Len(UpList(c)) :
               UpList(c)[i].t = "obj" /\ UpList(c)[i].id.t # "undef")
         => /\ Len(out[c].list) = Len(UpList(c))
            /\ \A i \in 1..Len(UpList(c)) :
                 /\ out[c].list[i].image =
                      Str(ImagePrefix \o FragmentText(UpList(c)[i].poster_path))
                 /\ out[c].list[i].title = UpList(c)[i].title
    /\ (Done(c) /\ op[c] = "fetchMovieDetail" /\ out[c].st = "returned")
         => out[c].val.image =
              Str(ImagePrefix \o FragmentText(body[c].data.poster_path))

C7_Witness ==
  \E c \in Calls :
    /\ GotList(c) /\ op[c] = "fetchMoviesRecommendation" /\ Len(UpList(c)) = 2
    /\ UpList(c)[1].t = "obj" /\ UpList(c)[1].poster_path = Str("")
    /\ UpList(c)[2].t = "obj" /\ UpList(c)[2].poster_path = NullV
    /\ Len(out[c].list) = 2
    /\ out[c].list[1].image = Str("https://image.tmdb.org/t/p/w500")
    /\ out[c].list[2].image = Str("https://image.tmdb.org/t/p/w500null")

(* C8: a call issues exactly one request over its lifetime: none before it
   is made, one from then on, in every outcome. *)
C8_ExactlyOneRequest ==
  \A c \in Calls :
    /\ pc[c] = "idle" => Len(sent[c]) = 0
    /\ pc[c] # "idle" => Len(sent[c]) = 1 /\ sent[c][1].url = Endpoint(op[c])

C8_Witness ==
  \E c \in Calls :
    /\ Done(c) /\ RequestRejected(c) /\ op[c] = "fetchMovieDetail"
    /\ out[c].st = "thrown" /\ Len(sent[c]) = 1

(* C9: with several calls in flight, settling in any order, each finished
   call holds the value it yields when run alone on its own upstream answer,
   and a call that has not finished holds nothing. *)
C9_CallsIndependent ==
  \A c \in Calls :
    /\ Done(c) => out[c] = Alone(op[c], res[c], body[c])
    /\ ~Done(c) => out[c] = Pending

C9_Witness ==
  \E c, d \in Calls :
    /\ c # d /\ Done(c) /\ Done(d)
    /\ op[c] = "fetchMovieDetail" /\ out[c].st = "thrown"
    /\ op[d] = "fetchMovieCredits" /\ out[d].st = "returned" /\ Len(out[d].list) = 1

(* An item on which the mapping callback raises. *)
ItemRaises(o, x) == x.t # "obj" \/ (IdConverted(o) /\ x.id.t \in {"undef", "null"})

(* C10: the list-returning operations are all or nothing: when the mapping
   of any item raises the call returns the empty list, so a returned list
   is empty or has one output for each of the N upstream items, in order. *)
C10_AllOrNothing ==
  \A c \in Calls :
    (GotList(c) /\ op[c] \in ListOps) =>
      /\ out[c].st = "returned" /\ out[c].kind = "list"
      /\ (\E i \in 1..Len(UpList(c)) : ItemRaises(op[c], UpList(c)[i]))
           => out[c].list = <<>>
      /\ \/ out[c].list = <<>>
         \/ /\ Len(out[c].list) = Len(UpList(c))
            /\ \A i \in 1..Len(UpList(c)) :
                 out[c].list[i].id = IdString(UpList(c)[i].id)

C10_Witness ==
  \E c \in Calls :
    /\ GotList(c) /\ op[c] = "fetchMovieCredits" /\ Len(UpList(c)) = 2
    /\ WellFormed(op[c], UpList(c)[1]) /\ UpList(c)[2].t = "null"
    /\ out[c].st = "returned" /\ out[c].list = <<>>

====
